---- MODULE Spec2Model ----
(***************************************************************************)
(* Barrier-synchronised parallel sort and k-way merge of                   *)
(* src/bin/11-threads/f16-barrier.rs (APUE figure 11.16).                  *)
(*                                                                         *)
(* main() initialises the barrier B with NTHR + 1 parties, creates NTHR    *)
(* threads running thr_fn, waits at the barrier and then calls merge().    *)
(* thr_fn sorts NUMS[idx .. idx + TNUM) with qsort/cmp and waits at the    *)
(* barrier.  The body of pthread_barrier_wait is a C file of the           *)
(* repository that is not part of the Rust sources; it is modelled after   *)
(* section 4.1 of the specification (BarrierLastArrival, BarrierAfterTrip, *)
(* BarrierMayProceed, generation).                                         *)
(*                                                                         *)
(* NUMNUM and NTHR are constants of the program (8_000_000 and 8); here    *)
(* they are chosen in Init from small ranges, and the element type c_long  *)
(* is scaled down to the ElemCard values LongMin..LongMax.                 *)
(***************************************************************************)
EXTENDS Integers, Sequences, FiniteSets

\* ---------------------------------------------------------------- bounds
MaxLen == 4          \* largest buffer length NUMNUM
MaxThr == 2          \* largest worker count NTHR
ElemCard == 3        \* number of values of the scaled-down element type
MaxParties == 3      \* largest party count of the reused barrier
MaxCycles == 2       \* calls each party makes to the reused barrier
MaxVal == 12         \* largest libc result handed to to_option
MaxLenFair == 3      \* largest buffer length of the runs checked for termination
MaxSignals == 3      \* signals the partner process sends
MaxWaits == 3        \* calls of wait_parent / wait_child

\* c_long scaled down to ElemCard consecutive values around 0
LongMin == 0 - (ElemCard \div 2)          \* c_long::min_value()
LongMax == LongMin + ElemCard - 1         \* c_long::max_value()
Elem == LongMin..LongMax

VARIABLES
    NUMNUM,      \* buffer length
    NTHR,        \* number of worker threads
    NUMS,        \* the shared buffer, indexed from 0
    NUMS0,       \* the buffer as main() filled it (history)
    phase,       \* where main() is
    ncreate,     \* number of pthread_create calls made by main's loop
    pc,          \* per party: where it is in thr_fn / pthread_barrier_wait
    count,       \* B.count: arrivals of the current cycle
    tripCount,   \* B.tripCount: required party count
    generation,  \* number of trips of the barrier
    mygen,       \* per party: generation read when it suspended
    respun,      \* parties that suspended again after a wakeup without trip
    calls,       \* total number of pthread_barrier_wait calls (history)
    ncall,       \* per party: number of pthread_barrier_wait calls (history)
    idx,         \* merge(): one cursor per partition
    snums,       \* merge(): the output vector
    emitted,     \* merge(): the buffer index each output came from (history)
    ty,          \* to_option: the type of the libc result
    self,        \* to_option: the libc result
    opt,         \* to_option: the Option returned
    SIGFLAG,     \* sync_parent_child: the static AtomicBool
    sigpending,  \* sync_parent_child: signals sent and not yet delivered
    sigblocked,  \* sync_parent_child: SIGUSR1 and SIGUSR2 are in the signal mask
    wpc,         \* sync_parent_child: where the process is
    wfn,         \* sync_parent_child: the wait function being executed
    nsig,        \* signals sent by the partner (history)
    nwait,       \* calls of a wait function (history)
    nret,        \* returns of a wait function (history)
    nhandled     \* runs of sig_usr (history)

sigVars == <<SIGFLAG, sigpending, sigblocked, wpc, wfn, nsig, nwait, nret,
             nhandled>>

libVars == <<ty, self, opt, sigVars>>

vars == <<NUMNUM, NTHR, NUMS, NUMS0, phase, ncreate, pc, count, tripCount,
          generation, mygen, respun, calls, ncall, idx, snums, emitted, libVars>>

runVars == <<libVars, NUMNUM, NTHR, NUMS, NUMS0, phase, ncreate, idx, snums,
             emitted>>
barVars == <<pc, count, tripCount, generation, mygen, respun, calls, ncall>>

\* ------------------------------------------------------------ partitions
\* const TNUM: usize = NUMNUM / NTHR (evaluated only when NTHR > 0)
TNUM == NUMNUM \div NTHR

Workers == 0..(NTHR - 1)
Coord == NTHR                       \* main() is the (NTHR + 1)-th party

\* the slice thread i sorts and merge() scans for cursor i
PartStart(i) == i * TNUM
PartEnd(i) == (i + 1) * TNUM        \* exclusive
Partition(i) == {j \in 0..(NUMNUM - 1) : PartStart(i) <= j /\ j < PartEnd(i)}

\* extern "C" fn cmp
cmp(val1, val2) == IF val1 = val2 THEN 0 ELSE IF val1 < val2 THEN -1 ELSE 1

\* qsort(base + lo, n, size, cmp): the slice lo .. lo+n-1 in cmp order
KthOf(f, S, k) ==
    CHOOSE v \in {f[j] : j \in S} :
        /\ Cardinality({j \in S : cmp(f[j], v) < 0}) <= k
        /\ k < Cardinality({j \in S : cmp(f[j], v) <= 0})

\* variant: the element count passed to qsort is one too large
qsort_oneMore(f, lo, n) ==
    [j \in DOMAIN f |->
        IF lo <= j /\ j < lo + n + 1
        THEN KthOf(f, {m \in DOMAIN f : lo <= m /\ m < lo + n + 1}, j - lo)
        ELSE f[j]]

qsort(f, lo, n) ==
    [j \in DOMAIN f |->
        IF lo <= j /\ j < lo + n
        THEN KthOf(f, {m \in DOMAIN f : lo <= m /\ m < lo + n}, j - lo)
        ELSE f[j]]

\* ----------------------------------------------------------------- barrier
\* variant: the coordinator is not counted as a party
BarrierCount_workersOnly == NTHR

\* variant: the barrier is initialised for one party more than there are
BarrierCount_oneTooMany == NTHR + 2

\* pthread_barrier_init(&mut B, null(), (NTHR + 1) as _)
BarrierCount == NTHR + 1

\* variant: the barrier trips one arrival early
BarrierLastArrival_early(c, P) == c >= P - 1

\* the arrival that makes the count reach the party count trips the barrier
BarrierLastArrival(c, P) == c = P

\* variant: the trip leaves the arrived-count as it is
BarrierAfterTrip_keep(c) == c

\* arrived-count after a trip
BarrierAfterTrip(c) == 0

\* variant: a single wait, every wakeup lets the party proceed
BarrierMayProceed_anyWakeup(g, mine) == TRUE

\* a woken party proceeds only when the generation it slept in has tripped
BarrierMayProceed(g, mine) == g # mine

\* variant: the increment of one arrival is lost
BarrierArrive_lost(c) == c

\* arrived-count after one more arrival, taken under the lock
BarrierArrive(c) == c + 1

\* the critical section of one call by party p
pthread_barrier_wait(p) ==
    /\ calls' = calls + 1
    /\ ncall' = [ncall EXCEPT ![p] = @ + 1]
    /\ IF BarrierLastArrival(BarrierArrive(count), tripCount)
       THEN /\ count' = BarrierAfterTrip(BarrierArrive(count))
            /\ generation' = generation + 1
            /\ pc' = [q \in DOMAIN pc |->
                        IF q = p THEN "returned"
                        ELSE IF pc[q] = "waiting" THEN "woken" ELSE pc[q]]
            /\ UNCHANGED <<mygen, respun>>
       ELSE /\ count' = BarrierArrive(count)
            /\ mygen' = [mygen EXCEPT ![p] = generation]
            /\ pc' = [pc EXCEPT ![p] = "waiting"]
            /\ UNCHANGED <<generation, respun>>
    /\ UNCHANGED tripCount

ProcessAlive == phase \notin {"Done", "Panicked", "ConstEvalError"}

\* the condition wait returns although nobody has notified
SpuriousWakeup(p) ==
    /\ ProcessAlive
    /\ pc[p] = "waiting"
    /\ generation = mygen[p]
    /\ pc' = [pc EXCEPT ![p] = "woken"]
    /\ UNCHANGED <<runVars, count, tripCount, generation, mygen, respun,
                   calls, ncall>>

\* a woken party re-acquires the lock and re-checks the generation
BarrierRecheck(p) ==
    /\ ProcessAlive
    /\ pc[p] = "woken"
    /\ IF BarrierMayProceed(generation, mygen[p])
       THEN /\ pc' = [pc EXCEPT ![p] = "returned"]
            /\ respun' = respun \ {p}
       ELSE /\ pc' = [pc EXCEPT ![p] = "waiting"]
            /\ respun' = respun \cup {p}
    /\ UNCHANGED <<runVars, count, tripCount, generation, mygen, calls, ncall>>

\* sync_parent_child is not in use: ATOMIC_BOOL_INIT, no signal sent
SigIdle ==
    /\ SIGFLAG = FALSE
    /\ sigpending = {}
    /\ sigblocked = FALSE
    /\ wpc = "start"
    /\ wfn = "none"
    /\ nsig = 0
    /\ nwait = 0
    /\ nret = 0
    /\ nhandled = 0

\* -------------------------------------------------------------------- main
Funs(n) == [0..(n - 1) -> Elem]

Init ==
    /\ NUMNUM \in 1..MaxLen
    /\ NTHR \in 0..MaxThr
    /\ NUMS \in Funs(NUMNUM)
    /\ NUMS0 = NUMS
    /\ phase = "Planning"
    /\ ncreate = 0
    /\ pc = [p \in 0..NTHR |-> IF p = Coord THEN "out" ELSE "none"]
    /\ count = 0
    /\ tripCount = 0
    /\ generation = 0
    /\ mygen = [p \in 0..NTHR |-> 0]
    /\ respun = {}
    /\ calls = 0
    /\ ncall = [p \in 0..NTHR |-> 0]
    /\ idx = [i \in Workers |-> 0]
    /\ snums = <<>>
    /\ emitted = <<>>
    /\ ty = "none"
    /\ self = 0
    /\ opt = <<"unset">>
    /\ SigIdle

\* main up to pthread_barrier_init; const TNUM = NUMNUM / NTHR does not
\* evaluate when NTHR = 0 (division by zero in a constant)
Plan ==
    /\ phase = "Planning"
    /\ IF NTHR = 0
       THEN /\ phase' = "ConstEvalError"
            /\ UNCHANGED tripCount
       ELSE /\ phase' = "Spawning"
            /\ tripCount' = BarrierCount
    /\ UNCHANGED <<libVars, NUMNUM, NTHR, NUMS, NUMS0, ncreate, pc, count, generation,
                   mygen, respun, calls, ncall, idx, snums,
                   emitted>>

CreateResults == {0, 11}            \* pthread_create: 0 or an errno (EAGAIN)

\* variant: the result of pthread_create is not looked at
SpawnOutcome_ignoreErr(err) == "Spawning"

\* variant: a failed creation sends main back to plan again
SpawnOutcome_replan(err) == IF err # 0 THEN "Planning" ELSE "Spawning"

\* if err != 0 { panic!(..) }
SpawnOutcome(err) == IF err # 0 THEN "Panicked" ELSE "Spawning"

\* one iteration of for i in 0..NTHR { pthread_create(.., thr_fn, i * TNUM) }
Spawn ==
    /\ phase = "Spawning"
    /\ ncreate < NTHR
    /\ \E err \in CreateResults :
        /\ phase' = SpawnOutcome(err)
        /\ pc' = IF err = 0 THEN [pc EXCEPT ![ncreate] = "sorting"] ELSE pc
    /\ ncreate' = ncreate + 1
    /\ UNCHANGED <<libVars, NUMNUM, NTHR, NUMS, NUMS0, count, tripCount, generation,
                   mygen, respun, calls, ncall, idx, snums,
                   emitted>>

\* thr_fn: qsort(NUMS + idx, TNUM, .., cmp)
WorkerSort(w) ==
    /\ ProcessAlive
    /\ w \in Workers
    /\ pc[w] = "sorting"
    /\ NUMS' = qsort(NUMS, PartStart(w), TNUM)
    /\ pc' = [pc EXCEPT ![w] = "sorted"]
    /\ UNCHANGED <<libVars, NUMNUM, NTHR, NUMS0, phase, ncreate, count, tripCount,
                   generation, mygen, respun, calls, ncall, idx, snums,
                   emitted>>

\* variant: the worker calls the barrier without waiting for qsort to return
WorkerMayArrive_early(w) == pc[w] \in {"sorting", "sorted"}

\* thr_fn reaches its barrier call when qsort has returned
WorkerMayArrive(w) == pc[w] = "sorted"

\* thr_fn: pthread_barrier_wait(&mut B)
WorkerArrive(w) ==
    /\ ProcessAlive
    /\ w \in Workers
    /\ WorkerMayArrive(w)
    /\ pthread_barrier_wait(w)
    /\ UNCHANGED runVars

\* main: pthread_barrier_wait(&mut B) after the creation loop
MainArrive ==
    /\ phase = "Spawning"
    /\ ncreate = NTHR
    /\ phase' = "WaitingAtBarrier"
    /\ pthread_barrier_wait(Coord)
    /\ UNCHANGED <<libVars, NUMNUM, NTHR, NUMS, NUMS0, ncreate, idx, snums,
                   emitted>>

\* variant: main does not wait for its barrier call to return
MergeMayStart_noWait == phase = "WaitingAtBarrier"

\* main goes on to merge() once its barrier call has returned
MergeMayStart == phase = "WaitingAtBarrier" /\ pc[Coord] = "returned"

\* merge(): for i in 0..NTHR { idx[i] = i * TNUM }
MergeBegin ==
    /\ MergeMayStart
    /\ phase' = "Merging"
    /\ idx' = [i \in Workers |-> PartStart(i)]
    /\ snums' = <<>>
    /\ emitted' = <<>>
    /\ UNCHANGED <<libVars, NUMNUM, NTHR, NUMS, NUMS0, ncreate, barVars>>

\* merge(): the inner scan for i in 0..NTHR, from i with (num, minidx)
RECURSIVE MinScan(_, _, _)
MinScan(i, num, minidx) ==
    IF i >= NTHR THEN minidx
    ELSE IF idx[i] < PartEnd(i) /\ NUMS[idx[i]] < num
         THEN MinScan(i + 1, NUMS[idx[i]], i)
         ELSE MinScan(i + 1, num, minidx)

\* variant: the cursor of the consumed partition is not advanced
AdvanceCursor_stuck(c) == c

\* merge(): idx[minidx] += 1
AdvanceCursor(c) == c + 1

\* variant: merge stores the selected element back into the buffer
MergeBuffer_inPlace(f, k, v) == [f EXCEPT ![k] = v]

\* merge(): the buffer after the k-th push of v; NUMS is only read
MergeBuffer(f, k, v) == f

\* merge(): one iteration of for _ in 0..NUMNUM
MergeStep ==
    /\ phase = "Merging"
    /\ Len(snums) < NUMNUM
    /\ LET minidx == MinScan(0, LongMax, 0)
       IN /\ snums' = Append(snums, NUMS[idx[minidx]])
          /\ emitted' = Append(emitted, idx[minidx])
          /\ idx' = [idx EXCEPT ![minidx] = AdvanceCursor(@)]
          /\ NUMS' = MergeBuffer(NUMS, Len(snums), NUMS[idx[minidx]])
    /\ UNCHANGED <<libVars, NUMNUM, NTHR, NUMS0, phase, ncreate, barVars>>

\* merge() returns snums; main checks it and returns
MergeEnd ==
    /\ phase = "Merging"
    /\ Len(snums) = NUMNUM
    /\ phase' = "Done"
    /\ UNCHANGED <<libVars, NUMNUM, NTHR, NUMS, NUMS0, ncreate, idx, snums, emitted,
                   barVars>>

Next ==
    \/ Plan
    \/ Spawn
    \/ MainArrive
    \/ MergeBegin
    \/ MergeStep
    \/ MergeEnd
    \/ \E w \in 0..(MaxThr - 1) : WorkerSort(w)
    \/ \E w \in 0..(MaxThr - 1) : WorkerArrive(w)
    \/ \E p \in 0..MaxThr : p \in DOMAIN pc /\ SpuriousWakeup(p)
    \/ \E p \in 0..MaxThr : p \in DOMAIN pc /\ BarrierRecheck(p)

Spec == Init /\ [][Next]_vars

\* the steps of the main thread
CoordStep ==
    \/ Plan
    \/ Spawn
    \/ MainArrive
    \/ BarrierRecheck(Coord)
    \/ MergeBegin
    \/ MergeStep
    \/ MergeEnd

\* the steps of the thread running thr_fn for partition w
WorkerStep(w) ==
    \/ WorkerSort(w)
    \/ WorkerArrive(w)
    \/ (w \in Workers /\ BarrierRecheck(w))

\* the runs checked for termination: buffers of up to MaxLenFair elements
InitFair == Init /\ NUMNUM <= MaxLenFair

\* every thread that can take a step is scheduled in the end; a spurious
\* wakeup may happen but never has to
SpecFair ==
    /\ InitFair
    /\ [][Next]_vars
    /\ WF_vars(CoordStep)
    /\ \A w \in 0..(MaxThr - 1) : WF_vars(WorkerStep(w))

\* ------------------------------------------------ the barrier used again
\* tripCount parties call pthread_barrier_wait MaxCycles times each
InitBarrier ==
    /\ NTHR \in 0..(MaxParties - 1)
    /\ NUMNUM = 1
    /\ NUMS = [j \in {0} |-> 0]
    /\ NUMS0 = NUMS
    /\ phase = "Reuse"
    /\ ncreate = 0
    /\ pc = [p \in 0..NTHR |-> "out"]
    /\ count = 0
    /\ tripCount = BarrierCount
    /\ generation = 0
    /\ mygen = [p \in 0..NTHR |-> 0]
    /\ respun = {}
    /\ calls = 0
    /\ ncall = [p \in 0..NTHR |-> 0]
    /\ idx = [i \in Workers |-> 0]
    /\ snums = <<>>
    /\ emitted = <<>>
    /\ ty = "none"
    /\ self = 0
    /\ opt = <<"unset">>
    /\ SigIdle

BarrierCall(p) ==
    /\ phase = "Reuse"
    /\ pc[p] = "out"
    /\ ncall[p] < MaxCycles
    /\ pthread_barrier_wait(p)
    /\ UNCHANGED runVars

BarrierAgain(p) ==
    /\ phase = "Reuse"
    /\ pc[p] = "returned"
    /\ pc' = [pc EXCEPT ![p] = "out"]
    /\ UNCHANGED <<runVars, count, tripCount, generation, mygen, respun,
                   calls, ncall>>

NextBarrier ==
    \/ \E p \in 0..(MaxParties - 1) : p \in DOMAIN pc /\ BarrierCall(p)
    \/ \E p \in 0..(MaxParties - 1) : p \in DOMAIN pc /\ BarrierAgain(p)
    \/ \E p \in 0..(MaxParties - 1) : p \in DOMAIN pc /\ SpuriousWakeup(p)
    \/ \E p \in 0..(MaxParties - 1) : p \in DOMAIN pc /\ BarrierRecheck(p)

SpecBarrier == InitBarrier /\ [][NextBarrier]_vars

\* ------------------------------------------------- LibcResult::to_option
None == <<"None">>
Some(x) == <<"Some", x>>

\* the implementations of LibcResult in lib.rs
Types == {"c_int", "i64", "isize", "sighandler_t", "ptr"}

\* SIG_ERR is all ones in the unsigned type sighandler_t
SIG_ERR == MaxVal

\* the values of a type, scaled down; a pointer is its address, null is 0
Values(t) == IF t \in {"c_int", "i64", "isize"} THEN (0 - MaxVal)..MaxVal
             ELSE 0..MaxVal

to_option(t, x) ==
    CASE t \in {"c_int", "i64"} -> IF x < 0 THEN None ELSE Some(x)
      [] t = "isize" -> IF x <= 0 THEN None ELSE Some(x)
      [] t = "sighandler_t" -> IF x = SIG_ERR THEN None ELSE Some(x)
      [] t = "ptr" -> IF x = 0 THEN None ELSE Some(x)

InitToOption ==
    /\ ty \in Types
    /\ self \in Values(ty)
    /\ opt = <<"unset">>
    /\ SigIdle
    /\ NTHR = 0
    /\ NUMNUM = 1
    /\ NUMS = [j \in {0} |-> 0]
    /\ NUMS0 = NUMS
    /\ phase = "Lib"
    /\ ncreate = 0
    /\ pc = [p \in 0..NTHR |-> "out"]
    /\ count = 0
    /\ tripCount = 0
    /\ generation = 0
    /\ mygen = [p \in 0..NTHR |-> 0]
    /\ respun = {}
    /\ calls = 0
    /\ ncall = [p \in 0..NTHR |-> 0]
    /\ idx = [i \in Workers |-> 0]
    /\ snums = <<>>
    /\ emitted = <<>>

\* self.to_option()
CallToOption ==
    /\ phase = "Lib"
    /\ opt = <<"unset">>
    /\ opt' = to_option(ty, self)
    /\ UNCHANGED <<ty, self, sigVars, NUMNUM, NTHR, NUMS, NUMS0, phase,
                   ncreate, idx, snums, emitted, barVars>>

NextToOption == CallToOption

SpecToOption == InitToOption /\ [][NextToOption]_vars

\* ------------------------------------------------------ sync_parent_child
\* one process of the parent/child pair; its partner sends the signals
Signals == {"SIGUSR1", "SIGUSR2"}
WaitFns == {"wait_parent", "wait_child"}

\* AtomicBool::fetch_xor(val): the value stored (the old one is returned)
fetch_xor(old, val) == old # val

\* variant: the flag is swapped to false by the test
SigflagAfterTest_swap(old) == FALSE

\* SIGFLAG after the loop test SIGFLAG.fetch_xor(false, SeqCst)
SigflagAfterTest(old) == fetch_xor(old, FALSE)

InitHandshake ==
    /\ SigIdle
    /\ ty = "none"
    /\ self = 0
    /\ opt = <<"unset">>
    /\ NTHR = 0
    /\ NUMNUM = 1
    /\ NUMS = [j \in {0} |-> 0]
    /\ NUMS0 = NUMS
    /\ phase = "Handshake"
    /\ ncreate = 0
    /\ pc = [p \in 0..NTHR |-> "out"]
    /\ count = 0
    /\ tripCount = 0
    /\ generation = 0
    /\ mygen = [p \in 0..NTHR |-> 0]
    /\ respun = {}
    /\ calls = 0
    /\ ncall = [p \in 0..NTHR |-> 0]
    /\ idx = [i \in Workers |-> 0]
    /\ snums = <<>>
    /\ emitted = <<>>

notSig == <<ty, self, opt, NUMNUM, NTHR, NUMS, NUMS0, phase, ncreate, idx,
            snums, emitted, barVars>>

\* tell_wait(): install sig_usr for both signals and block them; each libc
\* result goes through to_option().expect(..)
tell_wait ==
    /\ phase = "Handshake"
    /\ wpc = "start"
    /\ \E h \in {0, SIG_ERR}, r \in {0 - 1, 0} :
         IF to_option("sighandler_t", h) = None \/ to_option("c_int", r) = None
         THEN wpc' = "panicked" /\ UNCHANGED sigblocked
         ELSE wpc' = "out" /\ sigblocked' = TRUE
    /\ UNCHANGED <<SIGFLAG, sigpending, wfn, nsig, nwait, nret, nhandled, notSig>>

\* the partner's kill(pid, sig): the signal becomes pending
kill(sig) ==
    /\ phase = "Handshake"
    /\ wpc \notin {"start", "panicked"}
    /\ nsig < MaxSignals
    /\ sigpending' = sigpending \cup {sig}
    /\ nsig' = nsig + 1
    /\ UNCHANGED <<SIGFLAG, sigblocked, wpc, wfn, nwait, nret, nhandled, notSig>>

\* the partner's tell_child(pid)
tell_child == kill("SIGUSR1")

\* the partner's tell_parent(pid)
tell_parent == kill("SIGUSR2")

\* sig_usr runs once for every pending signal
sig_usr ==
    /\ SIGFLAG' = TRUE
    /\ nhandled' = nhandled + Cardinality(sigpending)
    /\ sigpending' = {}

\* a pending signal is delivered while the signals are not blocked
Deliver ==
    /\ phase = "Handshake"
    /\ wpc \in {"out", "test", "restore"}
    /\ ~sigblocked
    /\ sigpending # {}
    /\ sig_usr
    /\ UNCHANGED <<sigblocked, wpc, wfn, nsig, nwait, nret, notSig>>

\* entry of wait_parent() or wait_child()
WaitCall(f) ==
    /\ phase = "Handshake"
    /\ wpc = "out"
    /\ nwait < MaxWaits
    /\ wpc' = "test"
    /\ wfn' = f
    /\ nwait' = nwait + 1
    /\ UNCHANGED <<SIGFLAG, sigpending, sigblocked, nsig, nret, nhandled, notSig>>

\* while !SIGFLAG.fetch_xor(false, SeqCst) { .. }: the loop test
WaitTest ==
    /\ phase = "Handshake"
    /\ wpc = "test"
    /\ SIGFLAG' = SigflagAfterTest(SIGFLAG)
    /\ IF SIGFLAG
       THEN IF wfn = "wait_child"
            THEN wpc' = "restore" /\ UNCHANGED nret
            ELSE wpc' = "out" /\ nret' = nret + 1
       ELSE wpc' = "suspended" /\ UNCHANGED nret
    /\ UNCHANGED <<sigpending, sigblocked, wfn, nsig, nwait, nhandled, notSig>>

\* sigsuspend(&zeromask) returns after sig_usr has run
SigSuspend ==
    /\ phase = "Handshake"
    /\ wpc = "suspended"
    /\ sigpending # {}
    /\ sig_usr
    /\ wpc' = "test"
    /\ UNCHANGED <<sigblocked, wfn, nsig, nwait, nret, notSig>>

\* wait_child(): sigprocmask(SIG_SETMASK, &OLDMASK, ..).to_option().expect(..)
WaitRestore ==
    /\ phase = "Handshake"
    /\ wpc = "restore"
    /\ \E r \in {0 - 1, 0} :
         IF to_option("c_int", r) = None
         THEN wpc' = "panicked" /\ UNCHANGED <<sigblocked, nret>>
         ELSE wpc' = "out" /\ sigblocked' = FALSE /\ nret' = nret + 1
    /\ UNCHANGED <<SIGFLAG, sigpending, wfn, nsig, nwait, nhandled, notSig>>

NextHandshake ==
    \/ tell_wait
    \/ tell_child
    \/ tell_parent
    \/ Deliver
    \/ \E f \in WaitFns : WaitCall(f)
    \/ WaitTest
    \/ SigSuspend
    \/ WaitRestore

SpecHandshake == InitHandshake /\ [][NextHandshake]_vars

\* ------------------------------------------------------------- properties
Arrived(p) == pc[p] \in {"waiting", "woken", "returned"}
SortedPart(w) ==
    \A j, k \in Partition(w) : j < k => NUMS[j] <= NUMS[k]
NonDecreasing(s) == \A i \in 1..(Len(s) - 1) : s[i] <= s[i + 1]
Occurrences(f, v) == Cardinality({j \in DOMAIN f : f[j] = v})

\* 1 <= N <= L
ValidConfig == 1 <= NTHR /\ NTHR <= NUMNUM
\* the partitions of a valid configuration leave no remainder
EvenConfig == ValidConfig /\ NUMNUM % NTHR = 0

\* calls of party p that have returned
RetCount(p) == IF pc[p] \in {"waiting", "woken"} THEN ncall[p] - 1 ELSE ncall[p]

\* C1: the sequence merge() returns is non-decreasing, for every buffer
\* content (LongMin and LongMax included) and every valid worker count;
\* stated here on the configurations where NTHR divides NUMNUM, which the
\* claim includes and where the partitions cover the buffer.
C1_Sortedness ==
    (phase = "Done" /\ EvenConfig) => NonDecreasing(snums)

\* C2: the output of merge() holds every value as often as the input
\* buffer does, for every buffer content and every valid worker count;
\* stated on the configurations where NTHR divides NUMNUM.
C2_Permutation ==
    (phase = "Done" /\ EvenConfig) =>
        /\ Len(snums) = NUMNUM
        /\ \A v \in Elem : Occurrences(snums, v) = Occurrences(NUMS0, v)

\* C3: no call of pthread_barrier_wait returns before all tripCount
\* parties have made their call of the same cycle.
C3_ReleaseAtomicity ==
    \A p, q \in DOMAIN pc : RetCount(p) <= ncall[q]

\* C3 witness: with at least two parties, one has returned from the
\* barrier while another, released by the same trip, is still inside.
C3_Witness ==
    /\ tripCount >= 2
    /\ \E p, q \in DOMAIN pc :
           /\ pc[p] = "returned" /\ ncall[p] = 1
           /\ pc[q] = "woken" /\ ncall[q] = 1 /\ generation = 1

\* C4: merge() reads no element of the buffer before every worker has
\* sorted its partition and arrived at the barrier.
C4_SortBeforeMerge ==
    (phase \in {"Merging", "Done"} \/ Len(snums) > 0) =>
        \A w \in Workers : Arrived(w) /\ SortedPart(w)

\* C4 witness: merge() has read elements of a buffer the workers had to
\* reorder, and a worker is still on its way out of the barrier.
C4_Witness ==
    /\ phase = "Merging" /\ Len(snums) > 0
    /\ NTHR >= 2 /\ NUMS # NUMS0
    /\ \E w \in Workers : pc[w] = "woken"

\* C5: for 1 <= N <= L the partitions the workers sort and merge() scans
\* are pairwise disjoint, ascending, and their union is 0 .. L-1, also when
\* L is not a multiple of N.
C5_PartitionCover ==
    (ValidConfig /\ phase \in {"Spawning", "WaitingAtBarrier", "Merging", "Done"}) =>
        /\ UNION {Partition(i) : i \in Workers} = 0..(NUMNUM - 1)
        /\ \A i, j \in Workers : i < j => Partition(i) \cap Partition(j) = {}
        /\ \A i, j \in Workers : i < j => PartEnd(i) <= PartStart(j)

\* C6: the k-th trip happens exactly at the (k * P)-th call, a released
\* party that has not yet returned is not counted as an arrival of the next
\* cycle, and no call of cycle k returns before k * P calls were made.
C6_Reusability ==
    /\ generation = calls \div tripCount
    /\ count = calls % tripCount
    /\ \A p \in DOMAIN pc : RetCount(p) * tripCount <= calls

\* C6 witness: a party released by the first trip has not yet returned
\* while another party already waits in the second cycle.
C6_Witness ==
    \E p, q \in DOMAIN pc :
        /\ pc[p] = "woken" /\ mygen[p] = 0 /\ generation = 1
        /\ pc[q] = "waiting" /\ ncall[q] = 2 /\ count >= 1

\* C7: with N = 0 or N > L the run ends in an error outcome; no worker
\* is spawned and no merge is performed.
C7_InvalidConfigRejected ==
    (NTHR = 0 \/ NTHR > NUMNUM) =>
        /\ \A w \in Workers : pc[w] = "none"
        /\ phase \notin {"Merging", "Done"}

\* C8: when a pthread_create fails the run is in the fatal state, main has
\* not called the barrier and merge() has produced nothing; main is at the
\* barrier or beyond only with all NTHR workers started.
C8_AllOrNothing ==
    /\ (\E w \in Workers : w < ncreate /\ pc[w] = "none") =>
           (phase = "Panicked" /\ pc[Coord] = "out" /\ snums = <<>>)
    /\ phase \in {"WaitingAtBarrier", "Merging", "Done"} =>
           \A w \in Workers : pc[w] # "none"

\* C8 witness: a pthread_create failed after an earlier one had succeeded.
C8_Witness ==
    /\ phase = "Panicked"
    /\ \E w, x \in Workers : w < x /\ x < ncreate /\ pc[w] # "none" /\ pc[x] = "none"

\* C9: as long as one worker has not arrived at the barrier, no party has
\* returned from pthread_barrier_wait and main is neither merging nor done
\* (so if that worker never arrives they stay blocked forever).
C9_NoPartialRelease ==
    (\E w \in Workers : ~Arrived(w)) =>
        /\ phase \notin {"Merging", "Done"}
        /\ \A p \in DOMAIN pc : pc[p] # "returned"

\* C9 witness: main and a worker are suspended in the barrier, main even
\* after a wakeup, while another worker has not arrived.
C9_Witness ==
    /\ phase = "WaitingAtBarrier" /\ pc[Coord] = "waiting" /\ Coord \in respun
    /\ \E w, x \in Workers : pc[w] = "waiting" /\ pc[x] = "sorting"

\* C10: a party woken while the barrier has not tripped for its arrival
\* suspends again; a party leaves pthread_barrier_wait only after the
\* tripCount-th arrival of its cycle.
C10_SpuriousWakeupSafe ==
    [][\A p \in DOMAIN pc :
          (pc[p] = "woken" /\ pc'[p] # "woken") =>
              IF generation = mygen[p]
              THEN pc'[p] = "waiting"
              ELSE pc'[p] = "returned" /\ calls >= ncall[p] * tripCount]_vars

\* C10 witness: a party that suspended again after a wakeup without trip
\* has now been woken by the trip of its cycle.
C10_Witness ==
    \E p \in respun : pc[p] = "woken" /\ generation > mygen[p]

\* C11: the sort step of a worker changes no index outside its partition,
\* leaves its partition in ascending order with the same values, and every
\* index that changes belongs to the partition of the sorting worker and to
\* no other worker's partition.
C11_WriteConfinement ==
    [][/\ \A w \in Workers :
              (pc[w] = "sorting" /\ pc'[w] = "sorted") =>
                  /\ \A j \in DOMAIN NUMS \ Partition(w) : NUMS'[j] = NUMS[j]
                  /\ \A j, k \in Partition(w) : j < k => NUMS'[j] <= NUMS'[k]
                  /\ \A v \in Elem :
                         Cardinality({j \in Partition(w) : NUMS'[j] = v})
                             = Cardinality({j \in Partition(w) : NUMS[j] = v})
       /\ \A j \in DOMAIN NUMS :
              NUMS'[j] # NUMS[j] =>
                  \E w \in Workers :
                      /\ pc[w] = "sorting" /\ pc'[w] = "sorted"
                      /\ j \in Partition(w)
                      /\ \A x \in Workers \ {w} : j \notin Partition(x)]_vars

\* C11 witness: one worker has sorted and thereby changed its partition
\* while the unsorted partition of another worker is still as main filled it.
C11_Witness ==
    \E w, x \in Workers :
        /\ pc[w] = "sorted" /\ pc[x] = "sorting"
        /\ \E j \in Partition(w) : NUMS[j] # NUMS0[j]
        /\ ~SortedPart(x)
        /\ \A j \in Partition(x) : NUMS[j] = NUMS0[j]

PhaseOrder ==
    {<<"Planning", "Spawning">>, <<"Spawning", "WaitingAtBarrier">>,
     <<"WaitingAtBarrier", "Merging">>, <<"Merging", "Done">>}

C13_ToOption ==
    opt # <<"unset">> =>
        /\ ty \in {"c_int", "i64"} =>
               opt = (IF self = 0 - 1 THEN None ELSE Some(self))
        /\ ty = "ptr" => opt = (IF self = 0 THEN None ELSE Some(self))

\* C14: the arrived-count of the barrier is always within [0, P] and no
\* arrival is lost (count plus P for each trip is the number of calls made);
\* a call that is not the P-th arrival adds exactly one to the count and
\* leaves the generation alone, and the P-th arrival, in one step, resets the
\* count to 0, adds exactly one to the generation and wakes every suspended
\* party.
C14_CounterInvariant ==
    /\ [](count \in 0..tripCount /\ count + generation * tripCount = calls)
    /\ [][calls' # calls =>
            /\ calls' = calls + 1
            /\ IF count + 1 = tripCount
               THEN /\ count' = 0
                    /\ generation' = generation + 1
                    /\ \A q \in DOMAIN pc : pc[q] = "waiting" => pc'[q] = "woken"
               ELSE /\ count' = count + 1
                    /\ generation' = generation]_vars

\* a barrier of three parties has tripped once, and both suspended parties
\* were woken by the last arrival
C14_Witness ==
    /\ tripCount = 3
    /\ calls = 3
    /\ generation = 1
    /\ count = 0
    /\ Cardinality({q \in DOMAIN pc : pc[q] = "woken"}) = 2

\* C15: during the whole merge every cursor idx[i] stays within
\* [i*TNUM, (i+1)*TNUM], so a partition whose cursor is at its upper bound
\* is never consumed, for every buffer content (LongMax included); stated
\* on the configurations where NTHR divides NUMNUM.
C15_ExhaustedNotConsumed ==
    (phase \in {"Merging", "Done"} /\ EvenConfig) =>
        \A i \in Workers : PartStart(i) <= idx[i] /\ idx[i] <= PartEnd(i)

\* the partitions of the merge whose cursor is below the upper bound
Live == {i \in Workers : idx[i] < PartEnd(i)}

\* C16: every merge iteration consumes a non-exhausted partition whose
\* head is the minimum over the heads of all non-exhausted partitions,
\* the lowest-indexed one among those with that head, and appends that
\* head; stated on the configurations where NTHR divides NUMNUM.
C16_TieBreak ==
    [][(phase = "Merging" /\ EvenConfig /\ Len(snums') = Len(snums) + 1) =>
        \E i \in Live :
            /\ idx' = [idx EXCEPT ![i] = @ + 1]
            /\ snums' = Append(snums, NUMS[idx[i]])
            /\ \A j \in Live : NUMS[idx[i]] <= NUMS[idx[j]]
            /\ \A j \in Live : NUMS[idx[j]] = NUMS[idx[i]] => i <= j]_vars

\* C17: after the merge, for two buffer positions p < q of one partition
\* the element at p was emitted, and emitted before the element at q;
\* stated on the configurations where NTHR divides NUMNUM.
C17_OrderPreserved ==
    (phase = "Done" /\ EvenConfig) =>
        \A w \in Workers : \A p, q \in Partition(w) :
            p < q => \E a, b \in 1..Len(emitted) :
                        a < b /\ emitted[a] = p /\ emitted[b] = q

\* C18: with one partition the output of merge() is the sorted buffer,
\* element for element, for every buffer content.
C18_SinglePartitionCopy ==
    (phase = "Done" /\ NTHR = 1) =>
        /\ Len(snums) = NUMNUM
        /\ \A j \in 1..NUMNUM : snums[j] = NUMS[j - 1]
        /\ NUMS = qsort(NUMS0, 0, NUMNUM)

\* a run with one worker over a buffer that holds both the least and the
\* greatest element value has finished
C18_Witness ==
    /\ phase = "Done"
    /\ NTHR = 1
    /\ NUMNUM >= 3
    /\ \E j, k \in DOMAIN NUMS0 :
         j < k /\ NUMS0[j] = LongMax /\ NUMS0[k] = LongMin

\* C19 as claimed: a run that has ended, normally or by the panic of main,
\* has made exactly NTHR + 1 barrier calls, one by each party, with exactly
\* one trip, and its arrived-count is 0.
C19_OneTrip_Original ==
    phase \in {"Done", "Panicked"} =>
        /\ \A p \in DOMAIN pc : ncall[p] = 1
        /\ calls = NTHR + 1
        /\ generation = 1
        /\ count = 0

\* C19: every party calls the barrier at most once, a worker only after
\* its sort has finished, so no more than P = NTHR + 1 calls are made and
\* the barrier trips at most once; when main is past the barrier every
\* party has made its one call, the barrier has tripped exactly once and
\* the arrived-count is 0, and stays so to the end of the run.
C19_OneTrip ==
    /\ \A p \in DOMAIN pc : ncall[p] <= 1
    /\ \A w \in Workers : ncall[w] = 1 => SortedPart(w)
    /\ calls <= NTHR + 1
    /\ generation <= 1
    /\ generation = 0 => count = calls
    /\ phase \in {"Merging", "Done"} =>
         /\ \A p \in DOMAIN pc : ncall[p] = 1
         /\ calls = tripCount
         /\ tripCount = NTHR + 1
         /\ generation = 1
         /\ count = 0

\* a run with two workers has finished after three barrier calls, one trip
C19_Witness ==
    /\ phase = "Done"
    /\ NTHR = 2
    /\ calls = 3
    /\ generation = 1
    /\ count = 0

\* all NTHR threads have been created and main has not yet finished
AllStarted ==
    /\ NTHR >= 1
    /\ ncreate = NTHR
    /\ phase \in {"Spawning", "WaitingAtBarrier", "Merging"}

C21_FlagReset ==
    /\ [](nret <= nhandled)
    /\ [][(wpc = "test" /\ wpc' \in {"out", "restore"}) =>
            SIGFLAG /\ ~SIGFLAG']_vars

\* the buffer main() filled, with the partition of every worker from w on
\* sorted
RECURSIVE SortAll(_, _)
SortAll(f, w) ==
    IF w >= NTHR THEN f ELSE SortAll(qsort(f, PartStart(w), TNUM), w + 1)

\* C22: no step taken from the call of merge() to its return changes an
\* element of the buffer; the steps of merge() itself change only the
\* cursors and the output (and main's position), and from the call on the
\* buffer is the one the sorts left behind, the same when merge() returns
\* as when it began.
C22_MergeReadsOnly ==
    /\ [][(phase' = "Merging" \/ phase = "Merging") =>
            /\ NUMS' = NUMS
            /\ (idx' # idx \/ snums' # snums \/ phase' # phase) =>
                 UNCHANGED <<libVars, NUMNUM, NTHR, NUMS, NUMS0, ncreate,
                             barVars>>]_vars
    /\ [](phase \in {"Merging", "Done"} => NUMS = SortAll(NUMS0, 0))

\* merge() has returned from a buffer of four elements in two partitions
\* that the sorts rearranged and whose merged order differs from the
\* buffer's order
C22_Witness ==
    /\ phase = "Done"
    /\ NTHR = 2
    /\ NUMNUM = 4
    /\ NUMS # NUMS0
    /\ \E j \in 1..NUMNUM : snums[j] # NUMS[j - 1]

====
